---- MODULE Spec2Model ----
(***************************************************************************)
(* search-custom-markers.py: run hmmsearch for every (genome, marker)      *)
(* pair, parse the per-pair tabular reports into hit counts and write the  *)
(* genome-by-marker matrix.                                                *)
(*                                                                         *)
(* File names are sequences of characters.  The characters that occur are  *)
(* letters, the separator "-" and the blank " "; an extension (".out") is  *)
(* one element.  No name holds a line break, a "." or a "/", so            *)
(* os.path.basename(..).replace(".faa", "") is the stem the model starts   *)
(* from, and splitlines() yields the whole string (or nothing, for "").    *)
(* Mappings keep insertion order (dict of Python 3.7 and later).           *)
(***************************************************************************)
EXTENDS Integers, Sequences, FiniteSets, TLC

VARIABLES
    genomeFiles,    \* stems of the *.faa files in GENOMEDIR
    markerFiles,    \* stems of the *.hmm files in MARKERDIR
    reported,       \* what hmmsearch answers per (genome stem, marker stem)
    faults,         \* searches that failed or were cut short so far
    fs0,            \* the working directory as the run found it
    outExists,      \* directory "out" exists
    resultsExists,  \* directory "results" exists
    dirs,           \* subdirectories of "out"
    reports,        \* report files: <<dir, file>> -> content
    pc,             \* position of the script
    err,            \* the exception that ended the run, "" if none
    genomes,        \* line 23
    markers,        \* line 24
    gi,             \* position of the loop of line 28
    mi,             \* position of the loop of line 32
    name,           \* line 29
    calls,          \* the hmmsearch invocations made, in order
    walkTodo,       \* directories os.walk has still to yield
    curDir,         \* directory of the current os.walk iteration
    files,          \* files of that directory not yet visited
    heap,           \* the genome_dict objects, one per os.walk iteration
    all_dicts,      \* line 41: ordered mapping key -> genome_dict object
    parseLog,       \* the iterations of the loop of line 45, in order
    df,             \* line 55
    all_cols,       \* line 58
    written,        \* the matrices written to OUTFILE, in order
    prevOut         \* the matrices an earlier run on the same inputs wrote

vars == <<genomeFiles, markerFiles, reported, faults, fs0, outExists,
          resultsExists, dirs, reports, pc, err, genomes, markers, gi, mi,
          name, calls, walkTodo, curDir, files, heap, all_dicts, parseLog,
          df, all_cols, written, prevOut>>

(***************************************************************************)
(* Bounds                                                                  *)
(***************************************************************************)
MaxGenomes == 2
MaxMarkers == 2
\* hmmsearch invocations of one run
MaxPairs == 4
MaxHits == 1
MaxFaults == 1

GenomeStems == { <<"a">>, <<"b">>, <<"a", "-", "b">>, <<" ", "a">> }
MarkerStems == { <<"a">>, <<"b">>, <<"b", "-", "a">> }

(***************************************************************************)
(* Strings                                                                 *)
(***************************************************************************)
RECURSIVE LStrip(_)
LStrip(s) == IF s # <<>> /\ Head(s) = " " THEN LStrip(Tail(s)) ELSE s

RECURSIVE RStrip(_)
RStrip(s) ==
    IF s # <<>> /\ s[Len(s)] = " " THEN RStrip(SubSeq(s, 1, Len(s) - 1)) ELSE s

\* str.strip()
Strip(s) == RStrip(LStrip(s))

\* str.splitlines() of a string without line breaks
SplitLines(s) == IF s = <<>> THEN <<>> ELSE <<s>>

RECURSIVE Split(_, _)
\* str.split(sep)
Split(s, sep) ==
    IF \A i \in 1..Len(s) : s[i] # sep
    THEN <<s>>
    ELSE LET i == CHOOSE k \in 1..Len(s) :
                      s[k] = sep /\ \A j \in 1..(k - 1) : s[j] # sep
         IN  <<SubSeq(s, 1, i - 1)>> \o Split(SubSeq(s, i + 1, Len(s)), sep)

\* str.replace(ext, "") where ext is one element of the name
Replace(s, ext) == SelectSeq(s, LAMBDA c : c # ext)

\* the lines of os.path.basename(f).replace(ext, "").strip().splitlines()
NameLines(stem) == SplitLines(Strip(stem))

\* lines 29 and 33, where that list is not empty
Ident(stem) == NameLines(stem)[1]

OutNameNoMarker(nm, prot) == <<nm, nm \o <<"-", ".out">> >>
\* line 34: "out/" + dir + "/" + name + "-" + prot + ".out", as <<dir, file>>
OutName(nm, prot) == <<nm, nm \o <<"-">> \o prot \o <<".out">> >>

\* line 46
FileGenome(file) == Split(file, "-")[1]
\* line 47
FileProt(file) == Split(Replace(file, ".out"), "-")[2]
\* line 48
ResultPath(file) == <<FileGenome(file), file>>

(***************************************************************************)
(* Ordered mappings (dict) as sequences of <<key, value>>                  *)
(***************************************************************************)
Keys(d) == [i \in 1..Len(d) |-> d[i][1]]
HasKey(d, k) == \E i \in 1..Len(d) : d[i][1] = k
Get(d, k) == d[CHOOSE i \in 1..Len(d) : d[i][1] = k][2]
\* d[k] = v
DictSet(d, k, v) ==
    IF HasKey(d, k)
    THEN [i \in 1..Len(d) |-> IF d[i][1] = k THEN <<k, v>> ELSE d[i]]
    ELSE Append(d, <<k, v>>)

Range(s) == {s[i] : i \in 1..Len(s)}

RECURSIVE Dedup(_)
\* the elements of s, each at its first position
Dedup(s) ==
    IF s = <<>> THEN <<>>
    ELSE LET r == Dedup(SubSeq(s, 1, Len(s) - 1))
         IN  IF s[Len(s)] \in Range(r) THEN r ELSE Append(r, s[Len(s)])

RECURSIVE Concat(_)
Concat(ss) == IF ss = <<>> THEN <<>> ELSE Head(ss) \o Concat(Tail(ss))

RECURSIVE Perms(_)
\* the orders in which a directory listing can enumerate S
Perms(S) ==
    IF S = {} THEN {<<>>}
    ELSE UNION {{<<x>> \o p : p \in Perms(S \ {x})} : x \in S}

(***************************************************************************)
(* hmmsearch                                                               *)
(***************************************************************************)
\* A report lists its hits grouped by query; a query with no hit has no
\* line, so the report of a one-profile marker holds no block or one block.
Report(n) == [ok |-> TRUE, blocks |-> IF n = 0 THEN <<>> ELSE <<n>>]
Truncated == [ok |-> FALSE, blocks |-> <<>>]

Outcomes ==
    {[kind |-> "report", hits |-> n] : n \in 0..MaxHits}
    \cup {[kind |-> "truncated", hits |-> 0], [kind |-> "failed", hits |-> 0]}

IsFault(o) == o.kind # "report"

(***************************************************************************)
(* pandas                                                                  *)
(***************************************************************************)
EmptyFrame == [index |-> <<>>, columns |-> <<>>, vals |-> <<>>]

\* all_dicts with every genome_dict object looked up
Nested(ad, h) == [i \in 1..Len(ad) |-> <<ad[i][1], h[ad[i][2]]>>]

\* pd.DataFrame.from_dict(nested, orient="index"): the nested mapping is
\* turned inside out (column -> row -> value, columns in the order first
\* met), the row index is the union of the columns' rows in that order.
FromDict(nested) ==
    LET cols == Dedup(Concat([i \in 1..Len(nested) |-> Keys(nested[i][2])]))
        rowsOf(c) == SelectSeq(Keys(nested),
                               LAMBDA r : HasKey(Get(nested, r), c))
        rows == Dedup(Concat([j \in 1..Len(cols) |-> rowsOf(cols[j])]))
        cells == {<<r, c>> \in Range(rows) \X Range(cols) :
                      HasKey(Get(nested, r), c)}
    IN  [index |-> rows, columns |-> cols,
         vals |-> [rc \in cells |-> Get(Get(nested, rc[1]), rc[2])]]

\* df.reindex(columns=cols) followed by fillna(0)
ReindexFill(d, cols) ==
    [index |-> d.index, columns |-> cols,
     vals |-> [rc \in Range(d.index) \X Range(cols) |->
                  IF rc \in DOMAIN d.vals THEN d.vals[rc] ELSE 0]]

\* lines 61-64
AbsentCols(ms, existing) == SelectSeq(ms, LAMBDA m : m \notin Range(existing))

(***************************************************************************)
(* The script                                                              *)
(***************************************************************************)
NoReports == <<>>

FreshRun ==
    /\ pc = "mkdir_out"
    /\ err = ""
    /\ genomes = <<>>
    /\ markers = <<>>
    /\ gi = 0
    /\ mi = 0
    /\ name = <<>>
    /\ calls = <<>>
    /\ walkTodo = {}
    /\ curDir = <<>>
    /\ files = {}
    /\ heap = <<>>
    /\ all_dicts = <<>>
    /\ parseLog = <<>>
    /\ df = EmptyFrame
    /\ all_cols = <<>>
    /\ written = <<>>

\* A working directory is fresh, or holds what an earlier run left.
StaleDirs == { {}, {<<"a">>} }
StaleReports(ds) ==
    {NoReports} \cup {OutName(d, <<"a">>) :> Report(1) : d \in ds}

Init ==
    /\ genomeFiles \in {S \in SUBSET GenomeStems : Cardinality(S) <= MaxGenomes}
    /\ markerFiles \in {S \in SUBSET MarkerStems : Cardinality(S) <= MaxMarkers}
    /\ Cardinality(genomeFiles) * Cardinality(markerFiles) <= MaxPairs
    /\ reported = <<>>
    /\ faults = 0
    /\ outExists \in BOOLEAN
    /\ resultsExists \in BOOLEAN
    /\ dirs \in (IF outExists THEN StaleDirs ELSE {{}})
    /\ reports \in StaleReports(dirs)
    /\ fs0 = [out |-> outExists, results |-> resultsExists,
              dirs |-> dirs, reports |-> reports]
    /\ prevOut = <<>>
    /\ FreshRun

Crash(e) ==
    /\ pc' = "crashed"
    /\ err' = e

envVars == <<genomeFiles, markerFiles, fs0, prevOut>>
engineVars == <<reported, faults, calls>>
fsVars == <<outExists, resultsExists, dirs, reports>>
searchVars == <<genomes, markers, gi, mi, name>>
parseVars == <<walkTodo, curDir, files, heap, all_dicts, parseLog>>
frameVars == <<df, all_cols, written>>

MkdirOutExistOk ==
    /\ pc = "mkdir_out"
    /\ outExists' = TRUE
    /\ pc' = "mkdir_results"
    /\ UNCHANGED <<err, resultsExists, dirs, reports>>
    /\ UNCHANGED <<envVars, engineVars, searchVars, parseVars, frameVars>>

\* line 21
MkdirOut ==
    /\ pc = "mkdir_out"
    /\ IF outExists
       THEN Crash("FileExistsError") /\ UNCHANGED outExists
       ELSE outExists' = TRUE /\ pc' = "mkdir_results" /\ UNCHANGED err
    /\ UNCHANGED <<resultsExists, dirs, reports>>
    /\ UNCHANGED <<envVars, engineVars, searchVars, parseVars, frameVars>>

\* line 22
MkdirResults ==
    /\ pc = "mkdir_results"
    /\ IF resultsExists
       THEN Crash("FileExistsError") /\ UNCHANGED resultsExists
       ELSE resultsExists' = TRUE /\ pc' = "glob" /\ UNCHANGED err
    /\ UNCHANGED <<outExists, dirs, reports>>
    /\ UNCHANGED <<envVars, engineVars, searchVars, parseVars, frameVars>>

\* lines 23-25: glob returns the files in the order the filesystem lists them
Glob ==
    /\ pc = "glob"
    /\ genomes' \in Perms(genomeFiles)
    /\ markers' \in Perms(markerFiles)
    /\ gi' = 1
    /\ pc' = "genome_loop"
    /\ UNCHANGED <<err, mi, name>>
    /\ UNCHANGED <<envVars, engineVars, fsVars, parseVars, frameVars>>

\* lines 28-31, and lines 40-42 when the loop is over.  os.walk("out/")
\* yields "out/" first: it holds the genome directories and no file, so that
\* iteration only makes a genome_dict nothing refers to.
GenomeLoop ==
    /\ pc = "genome_loop"
    /\ IF gi > Len(genomes)
       THEN /\ pc' = "walk"
            /\ walkTodo' = dirs
            /\ all_dicts' = <<>>
            /\ UNCHANGED <<err, name, mi, dirs>>
       ELSE /\ UNCHANGED <<walkTodo, all_dicts>>
            /\ IF NameLines(genomes[gi]) = <<>>
               THEN Crash("IndexError") /\ UNCHANGED <<name, mi, dirs>>
               ELSE /\ name' = Ident(genomes[gi])
                    /\ IF name' \in dirs
                       THEN Crash("FileExistsError") /\ UNCHANGED <<mi, dirs>>
                       ELSE /\ dirs' = dirs \cup {name'}
                            /\ mi' = 1
                            /\ pc' = "marker_loop"
                            /\ UNCHANGED err
    /\ UNCHANGED <<genomes, markers, gi, curDir, files, heap, parseLog>>
    /\ UNCHANGED <<outExists, resultsExists, reports>>
    /\ UNCHANGED <<envVars, engineVars, frameVars>>

\* what hmmsearch does for the pair: the answer it gave before, if any
Answers(g, m) ==
    IF <<g, m>> \in DOMAIN reported THEN {reported[<<g, m>>]}
    ELSE {o \in Outcomes : IsFault(o) => faults < MaxFaults}

\* lines 32-37: one hmmsearch invocation; its exit status is not looked at
MarkerLoop ==
    /\ pc = "marker_loop"
    /\ mi <= Len(markers)
    /\ IF NameLines(markers[mi]) = <<>>
       THEN /\ Crash("IndexError")
            /\ UNCHANGED <<mi, reports, engineVars>>
       ELSE LET g == genomes[gi]
                m == markers[mi]
                outname == OutName(name, Ident(m))
            IN  \E o \in Answers(g, m) :
                  /\ reported' = (<<g, m>> :> o) @@ reported
                  /\ faults' = IF <<g, m>> \notin DOMAIN reported /\ IsFault(o)
                               THEN faults + 1 ELSE faults
                  /\ calls' = Append(calls, [marker |-> m, genome |-> g,
                                             tblout |-> outname])
                  /\ reports' =
                       CASE o.kind = "report" ->
                              (outname :> Report(o.hits)) @@ reports
                         [] o.kind = "truncated" ->
                              (outname :> Truncated) @@ reports
                         [] OTHER -> reports
                  /\ mi' = mi + 1
                  /\ UNCHANGED <<pc, err>>
    /\ UNCHANGED <<genomes, markers, gi, name>>
    /\ UNCHANGED <<outExists, resultsExists, dirs>>
    /\ UNCHANGED <<envVars, parseVars, frameVars>>

\* line 32, when the markers are exhausted: on to the next genome
MarkerLoopEnd ==
    /\ pc = "marker_loop"
    /\ mi > Len(markers)
    /\ gi' = gi + 1
    /\ pc' = "genome_loop"
    /\ UNCHANGED <<err, genomes, markers, mi, name>>
    /\ UNCHANGED <<envVars, engineVars, fsVars, parseVars, frameVars>>

FilesOf(d) == {p[2] : p \in {q \in DOMAIN reports : q[1] = d}}

WalkStopsEarly ==
    /\ pc = "walk"
    /\ \/ /\ pc' = "from_dict"
          /\ UNCHANGED <<walkTodo, curDir, files, heap>>
       \/ \E d \in walkTodo :
              /\ walkTodo' = walkTodo \ {d}
              /\ curDir' = d
              /\ heap' = (d :> <<>>) @@ heap
              /\ files' = FilesOf(d)
              /\ pc' = IF files' = {} THEN "walk" ELSE "parse"
    /\ UNCHANGED <<err, all_dicts, parseLog>>
    /\ UNCHANGED <<envVars, engineVars, fsVars, searchVars, frameVars>>

\* lines 43-44: the next directory os.walk yields, in listing order
Walk ==
    /\ pc = "walk"
    /\ IF walkTodo = {}
       THEN /\ pc' = "from_dict"
            /\ UNCHANGED <<walkTodo, curDir, files, heap>>
       ELSE \E d \in walkTodo :
              /\ walkTodo' = walkTodo \ {d}
              /\ curDir' = d
              /\ heap' = (d :> <<>>) @@ heap
              /\ files' = FilesOf(d)
              /\ pc' = IF files' = {} THEN "walk" ELSE "parse"
    /\ UNCHANGED <<err, all_dicts, parseLog>>
    /\ UNCHANGED <<envVars, engineVars, fsVars, searchVars, frameVars>>

RECURSIVE ParseBlocks(_, _, _, _, _, _)
\* lines 50-54 over the query blocks of one report: <<genome_dict, all_dicts>>;
\* ref names the genome_dict object all_dicts is made to refer to
ParseBlocks(blocks, gd, ref, ad, genome, prot) ==
    IF blocks = <<>> THEN <<gd, ad>>
    ELSE ParseBlocks(Tail(blocks), DictSet(gd, prot, Head(blocks)), ref,
                     DictSet(ad, genome, ref), genome, prot)

\* lines 45-54: one file of the current directory
ParseFile ==
    /\ pc = "parse"
    /\ \E file \in files :
         LET genome == FileGenome(file)
             prot == FileProt(file)
             result == ResultPath(file)
             entry == [dir |-> curDir, file |-> file, genome |-> genome,
                       prot |-> prot, result |-> result]
         IN  /\ parseLog' = Append(parseLog, entry)
             /\ files' = files \ {file}
             /\ IF result \notin DOMAIN reports
                THEN Crash("IOError") /\ UNCHANGED <<heap, all_dicts>>
                ELSE IF ~reports[result].ok
                THEN Crash("ParseError") /\ UNCHANGED <<heap, all_dicts>>
                ELSE LET r == ParseBlocks(reports[result].blocks, heap[curDir],
                                          curDir, all_dicts, genome, prot)
                     IN  /\ heap' = [heap EXCEPT ![curDir] = r[1]]
                         /\ all_dicts' = r[2]
                         /\ pc' = IF files' = {} THEN "walk" ELSE "parse"
                         /\ UNCHANGED err
    /\ UNCHANGED <<walkTodo, curDir>>
    /\ UNCHANGED <<envVars, engineVars, fsVars, searchVars, frameVars>>

\* line 55
MakeFrame ==
    /\ pc = "from_dict"
    /\ df' = FromDict(Nested(all_dicts, heap))
    /\ pc' = "columns"
    /\ UNCHANGED <<err, all_cols, written>>
    /\ UNCHANGED <<envVars, engineVars, fsVars, searchVars, parseVars>>

\* lines 58-66
BuildCols ==
    /\ pc = "columns"
    /\ all_cols' = AbsentCols(markers, df.columns) \o df.columns
    /\ pc' = "to_csv"
    /\ UNCHANGED <<err, df, written>>
    /\ UNCHANGED <<envVars, engineVars, fsVars, searchVars, parseVars>>

\* lines 67-69
WriteCsv ==
    /\ pc = "to_csv"
    /\ written' = Append(written, ReindexFill(df, all_cols))
    /\ pc' = "done"
    /\ UNCHANGED <<err, df, all_cols>>
    /\ UNCHANGED <<envVars, engineVars, fsVars, searchVars, parseVars>>

Next ==
    \/ MkdirOut
    \/ MkdirResults
    \/ Glob
    \/ GenomeLoop
    \/ MarkerLoop
    \/ MarkerLoopEnd
    \/ Walk
    \/ ParseFile
    \/ MakeFrame
    \/ BuildCols
    \/ WriteCsv

Spec == Init /\ [][Next]_vars

(***************************************************************************)
(* A second run of the script on the same input directories, in another    *)
(* fresh working directory; hmmsearch answers each pair as it did before.  *)
(***************************************************************************)
Rerun ==
    /\ pc = "done"
    /\ prevOut = <<>>
    /\ prevOut' = written
    /\ outExists' = FALSE
    /\ resultsExists' = FALSE
    /\ dirs' = {}
    /\ reports' = NoReports
    /\ pc' = "mkdir_out"
    /\ err' = ""
    /\ genomes' = <<>>
    /\ markers' = <<>>
    /\ gi' = 0
    /\ mi' = 0
    /\ name' = <<>>
    /\ calls' = <<>>
    /\ walkTodo' = {}
    /\ curDir' = <<>>
    /\ files' = {}
    /\ heap' = <<>>
    /\ all_dicts' = <<>>
    /\ parseLog' = <<>>
    /\ df' = EmptyFrame
    /\ all_cols' = <<>>
    /\ written' = <<>>
    /\ UNCHANGED <<genomeFiles, markerFiles, fs0, reported, faults>>

NextRerun == Next \/ Rerun

SpecRerun == Init /\ [][NextRerun]_vars

(***************************************************************************)
(* Vocabulary of the properties                                            *)
(***************************************************************************)
GenomeID(g) == Ident(g)
MarkerID(m) == Ident(m)
GenomeIDs == {GenomeID(g) : g \in genomeFiles}
MarkerIDs == {MarkerID(m) : m \in markerFiles}
Pairs == genomeFiles \X markerFiles

\* the pairs hmmsearch wrote a complete report for
Answered == {p \in DOMAIN reported : reported[p].kind = "report"}
HitCount(g, m) == reported[<<g, m>>].hits

Matrix == written[Len(written)]
Pos(seq, x) == CHOOSE i \in 1..Len(seq) : seq[i] = x

DistinctIDs ==
    /\ \A g1, g2 \in genomeFiles : GenomeID(g1) = GenomeID(g2) => g1 = g2
    /\ \A m1, m2 \in markerFiles : MarkerID(m1) = MarkerID(m2) => m1 = m2

SearchStageOver == pc \in {"walk", "parse", "from_dict", "columns", "to_csv", "done"}
ParseStageOver == pc \in {"from_dict", "columns", "to_csv", "done"}

(***************************************************************************)
(* C1: the matrix of a completed run, every search of which wrote its      *)
(* report, has exactly one row per genome and exactly one column per       *)
(* marker, whatever the number of hits reported and also for empty sets.   *)
(***************************************************************************)
C1_OneRowPerGenomeOneColumnPerMarker ==
    (pc = "done" /\ Pairs \subseteq Answered) =>
        /\ Len(Matrix.index) = Cardinality(genomeFiles)
        /\ Range(Matrix.index) = GenomeIDs
        /\ Len(Matrix.columns) = Cardinality(markerFiles)
        /\ Range(Matrix.columns) = MarkerIDs

(***************************************************************************)
(* C2: in the matrix of a completed run the cell of every searched pair    *)
(* (g, m) exists and holds the number of hits hmmsearch reported for that  *)
(* pair, 0 when it reported none.                                          *)
(***************************************************************************)
C2_CellIsHitCountOfItsPair ==
    pc = "done" =>
        \A p \in Answered \cap Pairs :
            /\ <<GenomeID(p[1]), MarkerID(p[2])>> \in DOMAIN Matrix.vals
            /\ Matrix.vals[<<GenomeID(p[1]), MarkerID(p[2])>>] = HitCount(p[1], p[2])

HasHit(m) == \E g \in genomeFiles :
                 <<g, m>> \in Answered /\ HitCount(g, m) > 0
ZeroMarkers == {m \in markerFiles : ~HasHit(m)}
HitMarkers == {m \in markerFiles : HasHit(m)}
\* the iterations of the parse loop that visited a report listing hits of m
SeenAt(m) ==
    {i \in 1..Len(parseLog) :
        \E k \in 1..Len(calls) :
            /\ calls[k].marker = m
            /\ calls[k].tblout = <<parseLog[i].dir, parseLog[i].file>>
            /\ <<calls[k].genome, m>> \in Answered
            /\ HitCount(calls[k].genome, m) > 0}
FirstSeen(m) == CHOOSE i \in SeenAt(m) : \A j \in SeenAt(m) : i <= j

(***************************************************************************)
(* C3: every marker without a hit in any genome has an all-zero column     *)
(* before the column of every marker with a hit; the zero-only columns     *)
(* keep the order of the marker list; the other columns follow in the      *)
(* order their markers' hits were first met while parsing (for a completed *)
(* run, every search of which wrote its report).                           *)
(***************************************************************************)
C3_ZeroColumnsFirstThenFirstSeen ==
    (pc = "done" /\ Pairs \subseteq Answered) =>
        LET cols == Matrix.columns
            col(m) == Pos(cols, MarkerID(m))
        IN  /\ \A m \in markerFiles : MarkerID(m) \in Range(cols)
            /\ \A z \in ZeroMarkers :
                 /\ \A r \in Range(Matrix.index) :
                        Matrix.vals[<<r, MarkerID(z)>>] = 0
                 /\ \A h \in HitMarkers : col(z) < col(h)
            /\ \A i, j \in 1..Len(markers) :
                 (i < j /\ markers[i] \in ZeroMarkers /\ markers[j] \in ZeroMarkers)
                     => col(markers[i]) < col(markers[j])
            /\ \A h1, h2 \in HitMarkers :
                 (SeenAt(h1) # {} /\ SeenAt(h2) # {}
                    /\ FirstSeen(h1) < FirstSeen(h2)) => col(h1) < col(h2)

(***************************************************************************)
(* C4: a second complete run on the same genome files, marker files and    *)
(* search results writes the same matrix as the first, whatever order the  *)
(* filesystem lists the input files and the report directories in.         *)
(***************************************************************************)
C4_RerunWritesTheSameMatrix ==
    (pc = "done" /\ prevOut # <<>>) => written = prevOut

(***************************************************************************)
(* C5: a malformed report does not abort the run: no run ends in the parse *)
(* error of one report.                                                    *)
(***************************************************************************)
C5_ParseErrorDoesNotAbort ==
    ~(pc = "crashed" /\ err = "ParseError")

(***************************************************************************)
(* C6: a run started while "out" or "results" exists never gets past the   *)
(* two mkdir calls except into the error state: hmmsearch is not invoked,  *)
(* the reports are those found at the start, and no matrix is written.     *)
(***************************************************************************)
C6_ExistingDirectoryStopsTheRun ==
    (fs0.out \/ fs0.results) =>
        /\ pc \in {"mkdir_out", "mkdir_results", "crashed"}
        /\ pc = "crashed" => err = "FileExistsError"
        /\ calls = <<>>
        /\ reports = fs0.reports
        /\ written = <<>>

C6_Witness ==
    /\ pc = "crashed"
    /\ fs0.out
    /\ fs0.reports # NoReports
    /\ genomeFiles # {}
    /\ markerFiles # {}

(***************************************************************************)
(* C7: the matrix is written at most once, and only when hmmsearch has     *)
(* been invoked for every pair and the parse loop has visited every        *)
(* report: no matrix is written while a search or a parse is pending.      *)
(***************************************************************************)
C7_WrittenOnceAfterSearchAndParse ==
    /\ Len(written) <= 1
    /\ written # <<>> =>
         /\ \A p \in Pairs : \E k \in 1..Len(calls) :
                calls[k].genome = p[1] /\ calls[k].marker = p[2]
         /\ gi > Len(genomes)
         /\ walkTodo = {}
         /\ files = {}
         /\ \A q \in DOMAIN reports : \E i \in 1..Len(parseLog) :
                <<parseLog[i].dir, parseLog[i].file>> = q

C7_Witness ==
    /\ pc = "done"
    /\ Len(written) = 1
    /\ Cardinality(Pairs) >= 4
    /\ Len(calls) = Cardinality(Pairs)
    /\ Len(parseLog) = Cardinality(Pairs)

(***************************************************************************)
(* C8: with pairwise distinct identifiers, once the search stage is over   *)
(* hmmsearch has been invoked exactly once per pair of genomes x markers   *)
(* (marker as query, genome as database), with the report path             *)
(* out/<GenomeID>/<GenomeID>-<MarkerID>.out, which no other invocation     *)
(* was given.                                                              *)
(***************************************************************************)
C8_OneSearchAndOwnReportPerPair ==
    (SearchStageOver /\ DistinctIDs) =>
        /\ Len(calls) = Cardinality(Pairs)
        /\ \A p \in Pairs :
             \E k \in 1..Len(calls) :
                /\ calls[k].genome = p[1]
                /\ calls[k].marker = p[2]
                /\ calls[k].tblout[1] = GenomeID(p[1])
                /\ calls[k].tblout[2] =
                       GenomeID(p[1]) \o <<"-">> \o MarkerID(p[2]) \o <<".out">>
                /\ \A j \in 1..Len(calls) :
                       j # k => /\ <<calls[j].genome, calls[j].marker>> # p
                                /\ calls[j].tblout # calls[k].tblout

C8_Witness ==
    /\ SearchStageOver
    /\ DistinctIDs
    /\ Cardinality(Pairs) >= 4
    /\ Len(calls) = Cardinality(Pairs)

(***************************************************************************)
(* C9: after the parse stage every searched pair has its hit fact: the     *)
(* genome's entry of all_dicts maps the marker to the reported count, 0    *)
(* included.                                                               *)
(***************************************************************************)
C9_OneFactPerSearchedPair ==
    ParseStageOver =>
        \A p \in Answered \cap Pairs :
            /\ HasKey(all_dicts, GenomeID(p[1]))
            /\ HasKey(heap[Get(all_dicts, GenomeID(p[1]))], MarkerID(p[2]))
            /\ Get(heap[Get(all_dicts, GenomeID(p[1]))], MarkerID(p[2]))
                   = HitCount(p[1], p[2])

(***************************************************************************)
(* C10: for every report the parse loop visits, the identifiers it takes   *)
(* from the file name are those of the pair the report was written for,    *)
(* and the path it opens is the path that was written.                     *)
(***************************************************************************)
C10_ReportNameRoundTrips ==
    \A i \in 1..Len(parseLog) :
        /\ parseLog[i].result = <<parseLog[i].dir, parseLog[i].file>>
        /\ \A k \in 1..Len(calls) :
             calls[k].tblout = <<parseLog[i].dir, parseLog[i].file>> =>
                /\ parseLog[i].genome = GenomeID(calls[k].genome)
                /\ parseLog[i].prot = MarkerID(calls[k].marker)

====
